---- MODULE Spec2Model ----
(***************************************************************************)
(* A model of gotenberg's logging bridge (pkg/modules/logging) and of the  *)
(* OpenTelemetry lifecycle module (pkg/modules/otel).                      *)
(*                                                                         *)
(*   - bridgeCore: a zapcore.Core that buffers entries under a shared      *)
(*     mutex until SetTarget attaches the real core, then forwards.        *)
(*   - rootCore: the wrapper that prefixes field keys and clamps levels,   *)
(*     two of which are combined by zapcore.NewTee in Logging.Logger.      *)
(*   - Otel.Start / Otel.Stop: construction and concurrent shutdown of the *)
(*     three OTLP providers.                                               *)
(***************************************************************************)
EXTENDS Integers, Sequences, FiniteSets, TLC

\* ------------------------------------------------------------------ bounds
\* Number of concurrent writer goroutines.
NWriters == 2
\* Write calls made in all, by all the writers together.
MaxWrites == 3
\* With calls made in all.
MaxWith == 1
\* Log calls made through the logger, in all.
MaxLogs == 2
\* RegisterCore calls made by the exporter side.
MaxRegister == 2

\* ------------------------------------------------------- program constants
\* len(b.shared.buffer) < 1000
BufferCap == 1000
\* zapcore levels named by the log-level option.
DebugLevel == -1
InfoLevel == 0
WarnLevel == 1
ErrorLevel == 2
\* A level below zapcore.DebugLevel (such as a logr V-level above 1).
TraceLevel == DebugLevel - 1

internalKey == "internal"

Writers == 1 .. NWriters
\* The cores handed to RegisterCore: one enabled at every level, one enabled
\* from ErrorLevel on.
Targets == {"all", "errors"}
\* The nil zapcore.Core.
NoTarget == "nil"
\* The goroutine that calls RegisterCore.
Registrar == NWriters + 1

\* A zapcore.Field: its key, and its value. The value keeps the name the
\* caller gave the field, so that a rewritten key can be told from it.
Field(k) == [key |-> k, val |-> k]
\* A zapcore.Entry: the message (here the writer and its running number, and
\* the level the caller logged it at) and the level.
Entry(w, n, l) == [w |-> w, n |-> n, l0 |-> l, lvl |-> l]
\* A bufferedLog.
BufferedLog(e, fs) == [ent |-> e, fields |-> fs]

TargetLevel(t) == IF t = "all" THEN TraceLevel ELSE ErrorLevel
TargetEnabled(t, l) == l >= TargetLevel(t)
\* target.Check(ent, nil) # nil
TargetCheck(t, e) == TargetEnabled(t, e.lvl)

VARIABLES
    \* package logging
    logger,        \* the package singleton: TRUE once constructed
    bridgeCore,    \* Logging.bridgeCore # nil
    level,         \* Logging.level, as a zapcore level
    fieldsPrefix,  \* Logging.fieldsPrefix
    \* Logging.Logger, statement by statement
    loggerPtr,     \* the package variable logger: 0 (nil), or the bridge core
                   \* the logger it points to writes through
    bridgeCorePtr, \* Logging.bridgeCore: 0 (nil), or a bridge core
    nbridges,      \* the bridge cores constructed by newBridgeCore
    lpc,           \* where each caller is in Logger
    newCore,       \* the bridge core each caller has constructed
    handle,        \* the bridge core each returned logger writes through
    attachedTo,    \* the bridge cores RegisterCore has set a target on
    \* bridgeCore handles and the slices of their fields
    arrays,        \* the backing arrays allocated for fields slices
    handles,       \* the bridgeCore values: shared state and fields slice
    derived,       \* per handle, its parent's fields followed by the added ones
    holds,         \* the handle each writer writes through
    \* sharedBridgeState
    mu,            \* 0, or the goroutine holding the write lock
    target,        \* NoTarget or the attached core
    buffer,        \* the buffered logs
    \* writer goroutines and their handles
    pc,            \* where each writer is in Write
    cur,           \* the entry and allFields of the Write in progress
    hfields,       \* bridgeCore.fields of the handle each writer holds
    sfields,       \* the fields the local core of that handle has encoded
    nwrites,       \* Write calls made by each writer
    nwith,         \* With calls made by each writer
    ret,           \* what each writer's last Write returned
    \* the goroutine calling RegisterCore
    regPc, regCore, nreg,
    ri,            \* the index of the range loop of SetTarget
    \* what the cores observed
    delivered,     \* per target, the logs its Write received
    stdOut,        \* the logs the local (std) core received
    \* history
    wrote,         \* per writer, the logs of its Write calls in program order
    preWrites,     \* logs whose Write ran its critical section with no target
    live,          \* logs forwarded by Write directly to a target
    attachLog,     \* the cores SetTarget attached, in order
    \* package otel
    enableExporter, \* enableLogExporter, enableMetricExporter, enableSpanExporter
    metrics,       \* Otel.metrics: the instrument of each contributed metric
    provider,      \* otlpLoggerProvider, otlpMeterProvider, otlpTracerProvider # nil
    pollers,       \* the metrics a polling goroutine was started for
    ppc,           \* where each polling goroutine is in its loop
    lastRec,       \* per polling goroutine, when it last recorded a value
    startPc,       \* where Start is
    startRet,      \* what Start returned
    stopPc,        \* where Stop is
    task,          \* the three goroutines of Stop
    errChan,       \* errLogChan, errMetricChan, errTracerChan
    errs,          \* errLog, errMetric, errTracer
    stopRet,       \* what Stop returned
    shut,          \* per provider, the results its Shutdown returned
    otlpTracer,    \* Otel.otlpTracer # nil
    traceRet,      \* what the last TraceStart returned
    serviceName,   \* Otel.serviceName
    protocol,      \* logExporterProtocol, metricExporterProcotol, spanExporterProtocol
    validatePc,    \* where Validate is
    validateRet    \* what Validate returned

bridgeVars == <<mu, target, buffer>>
writerVars == <<pc, cur, hfields, sfields, nwrites, nwith, ret>>
regVars == <<regPc, regCore, nreg, ri>>
obsVars == <<delivered, stdOut>>
histVars == <<wrote, preWrites, live, attachLog>>
ctorVars == <<loggerPtr, bridgeCorePtr, nbridges, lpc, newCore, handle, attachedTo>>
handleVars == <<arrays, handles, derived, holds>>
logVars == <<logger, bridgeCore, level, fieldsPrefix, ctorVars, handleVars>>
traceVars == <<otlpTracer, traceRet>>
cfgVars == <<serviceName, protocol, validatePc, validateRet>>
pollerVars == <<pollers, ppc, lastRec>>
otelVars == <<enableExporter, metrics, provider, pollerVars, startPc, startRet,
              stopPc, task, errChan, errs, stopRet, shut, traceVars, cfgVars>>
vars == <<logVars, bridgeVars, writerVars, regVars, obsVars, histVars, otelVars>>

RECURSIVE TotalTo(_, _)
TotalTo(f, n) == IF n = 0 THEN 0 ELSE f[n] + TotalTo(f, n - 1)
\* The calls counted in f, over all the writers.
Total(f) == TotalTo(f, NWriters)

NoLog == [ent |-> Entry(0, 0, InfoLevel), fields |-> <<>>]

\* ---------------------------------------------------------------- helpers
\* Mutant: only the first field is looked at.
HasInternal_FirstOnly(fs) == fs # <<>> /\ Head(fs).key = internalKey

RECURSIVE HasInternal(_)
\* for _, f := range allFields { if f.Key == internalKey { return nil } }
HasInternal(fs) ==
    IF fs = <<>> THEN FALSE
    ELSE Head(fs).key = internalKey \/ HasInternal(Tail(fs))

\* Mutant: the loop runs over the buffer from its end.
Replay_Reversed(t, buf) ==
    LET kept == SelectSeq(buf, LAMBDA log : TargetCheck(t, log.ent))
    IN  [i \in 1 .. Len(kept) |-> kept[Len(kept) + 1 - i]]

\* The logs of the buffer that SetTarget's loop writes to the target: those
\* target.Check accepts, in buffer order.
Replay(t, buf) == SelectSeq(buf, LAMBDA log : TargetCheck(t, log.ent))

\* Mutant: the capacity test is off by one.
Append1000_OffByOne(buf, log) ==
    IF Len(buf) <= BufferCap THEN Append(buf, log) ELSE buf

\* Mutant: the log is put in front of the buffer.
Append1000_Prepend(buf, log) ==
    IF Len(buf) < BufferCap THEN <<log>> \o buf ELSE buf

\* The buffer after Write's append: dropped silently at capacity.
Append1000(buf, log) == IF Len(buf) < BufferCap THEN Append(buf, log) ELSE buf

\* ------------------------------------------------------------ input sets
\* Levels of the entries the writers log straight to the bridge.
EntryLevels == {InfoLevel, ErrorLevel}
\* Fields passed to a Write call.
CallFields == {<<Field("msg")>>, <<Field(internalKey)>>}
\* Fields passed to a With call.
WithFields == {<<Field("k")>>, <<Field(internalKey)>>}
\* Values of the log-level option.
LogLevels == {DebugLevel, InfoLevel, WarnLevel, ErrorLevel}

\* ------------------------------------------------- slices of fields
\* A []zapcore.Field is a backing array (0 for the nil slice), a length and
\* a capacity; arrays[a] holds the cells of array a, as many as its capacity.
Slice(a, l, c) == [arr |-> a, len |-> l, cap |-> c]
NilSlice == Slice(0, 0, 0)
\* What a cell holds that was never written.
ZeroField == Field("")
\* A bridgeCore value: the pointer to the shared state and the fields slice.
Handle(sh, sl) == [shared |-> sh, fields |-> sl]
\* newBridgeCore(level): &bridgeCore{level: level, shared: &sharedBridgeState{}}
RootHandle == Handle(1, NilSlice)

\* The fields read through a slice.
SliceRead(arrs, sl) == IF sl.len = 0 THEN <<>> ELSE SubSeq(arrs[sl.arr], 1, sl.len)

\* The capacity of the array append allocates when the old one is too small:
\* the length needed when that is more than twice the old capacity, twice the
\* old capacity otherwise (slices of fewer than 256 elements).
GrowCap(oldCap, need) == IF need > 2 * oldCap THEN need ELSE 2 * oldCap

\* append(sl, fs...): the arrays and the slice after it. With room in the
\* array of sl the fields are written in place, behind the length of sl;
\* otherwise a new array is allocated and the fields of sl are copied to it.
AppendSlice(arrs, sl, fs) ==
    LET need == sl.len + Len(fs)
    IN  IF fs = <<>> THEN [arrays |-> arrs, slice |-> sl]
        ELSE IF need <= sl.cap
        THEN [arrays |-> [arrs EXCEPT ![sl.arr] =
                             [i \in DOMAIN @ |->
                                 IF i > sl.len /\ i <= need THEN fs[i - sl.len] ELSE @[i]]],
              slice |-> Slice(sl.arr, need, sl.cap)]
        ELSE LET c == GrowCap(sl.cap, need)
                 cells == SliceRead(arrs, sl) \o fs
             IN  [arrays |-> Append(arrs,
                                 [i \in 1 .. c |->
                                     IF i <= need THEN cells[i] ELSE ZeroField]),
                  slice |-> Slice(Len(arrs) + 1, need, c)]

\* ------------------------------------------------------------ package otel
\* The three exporters, in the order Start builds them and Stop joins their
\* errors.
Exporters == <<"log", "metric", "span">>
ExporterSet == {Exporters[i] : i \in DOMAIN Exporters}

\* An error is the chain of causes errors.Is walks; nil is the empty chain.
NilErr == <<>>
\* context.Canceled
ctxCanceled == "canceled"
Canceled == <<ctxCanceled>>
\* A failure of the shutdown of e's provider that is not a cancellation.
Failure(e) == <<"X_" \o e>>
\* The same failure joined with the context's error: the provider flushed,
\* failed, and then found the context cancelled.
FailureWhileCanceled(e) == <<"X_" \o e, ctxCanceled>>
\* What provider.Shutdown(ctx) can return.
ShutdownResults(e) == {NilErr, Canceled, Failure(e), FailureWhileCanceled(e)}

\* errors.Is(err, cause)
ErrorsIs(err, cause) == \E i \in DOMAIN err : err[i] = cause

\* filterErr := func(err error) error { if errors.Is(err, context.Canceled)
\* { return nil }; return err }
filterErr(err) == IF ErrorsIs(err, ctxCanceled) THEN NilErr ELSE err

\* Mutant: only the first error survives.
JoinErrs_First(es) ==
    LET kept == SelectSeq(es, LAMBDA e : e # NilErr)
    IN  IF kept = <<>> THEN <<>> ELSE <<Head(kept)>>

\* errors.Join(errLog, errMetric, errTracer): nil when every argument is nil,
\* otherwise an error wrapping the non-nil arguments in order.
JoinErrs(es) == SelectSeq(es, LAMBDA e : e # NilErr)

\* The instruments Start knows (gotenberg.CounterInstrument, ...).
Instruments == {"counter", "updowncounter", "histogram", "gauge"}
\* The metrics the modules contribute: one counter, or a gauge followed by a
\* metric of an instrument Start does not know.
MetricLists == {<<"counter">>, <<"gauge", "unknown">>}

\* Mutant: the test for "nothing enabled" is left out.
AnyEnabled_Always == TRUE

\* !(!enableMetricExporter && !enableSpanExporter && !enableLogExporter)
AnyEnabled == \E e \in ExporterSet : enableExporter[e]

\* The service names and the protocols the options can carry: the defaults
\* ("gotenberg", "grpc") and one other value each.
ServiceNames == {"gotenberg", ""}
Protocols == {"grpc", "http"}

\* The module after Provision up to the exporters' options: the service name
\* and the three protocols.
InitConfig(name, proto) ==
    /\ serviceName = name
    /\ protocol = proto
    /\ validatePc = "idle"
    /\ validateRet = <<>>

\* The default options: otel-service-name "gotenberg", every protocol "grpc".
DefaultProtocols == [e \in ExporterSet |-> "grpc"]

\* The rest of the module after Provision, with the exporters en enabled and
\* the metrics ms collected (Provision collects metrics only for the metric
\* exporter).
InitExporters(en, ms) ==
    /\ enableExporter = en
    /\ metrics = IF en["metric"] THEN ms ELSE <<>>
    /\ provider = [e \in ExporterSet |-> FALSE]
    /\ pollers = <<>>
    /\ ppc = <<>>
    /\ lastRec = <<>>
    /\ startPc = "idle"
    /\ startRet = NilErr
    /\ stopPc = "idle"
    /\ task = [e \in ExporterSet |-> "none"]
    /\ errChan = [e \in ExporterSet |-> <<>>]
    /\ errs = [e \in ExporterSet |-> NilErr]
    /\ stopRet = <<>>
    /\ shut = [e \in ExporterSet |-> <<>>]
    /\ otlpTracer = FALSE
    /\ traceRet = "none"

\* The module after Provision with the default service name and protocols.
InitOtel(en, ms) ==
    /\ InitExporters(en, ms)
    /\ InitConfig("gotenberg", DefaultProtocols)

\* The default options: no exporter enabled.
NoExporter == [e \in ExporterSet |-> FALSE]

\* ------------------------------------------------------------------- Init
InitLogging(lvl, prefix, made, buf) ==
    /\ logger = made
    /\ bridgeCore = made
    /\ level = lvl
    /\ fieldsPrefix = prefix
    /\ loggerPtr = IF made THEN 1 ELSE 0
    /\ bridgeCorePtr = IF made THEN 1 ELSE 0
    /\ nbridges = IF made THEN 1 ELSE 0
    /\ lpc = [w \in Writers |-> "idle"]
    /\ newCore = [w \in Writers |-> 0]
    /\ handle = [w \in Writers |-> 0]
    /\ attachedTo = {}
    /\ arrays = <<>>
    /\ handles = IF made THEN <<RootHandle>> ELSE <<>>
    /\ derived = IF made THEN <<(<<>>)>> ELSE <<>>
    /\ holds = [w \in Writers |-> 1]
    /\ mu = 0
    /\ target = NoTarget
    /\ buffer = buf
    /\ pc = [w \in Writers |-> "none"]
    /\ cur = [w \in Writers |-> NoLog]
    /\ hfields = [w \in Writers |-> <<>>]
    /\ sfields = [w \in Writers |-> <<>>]
    /\ nwrites = [w \in Writers |-> 0]
    /\ nwith = [w \in Writers |-> 0]
    /\ ret = [w \in Writers |-> "none"]
    /\ regPc = "idle"
    /\ regCore = NoTarget
    /\ nreg = 0
    /\ ri = 0
    /\ delivered = [t \in Targets |-> <<>>]
    /\ stdOut = <<>>
    /\ wrote = [w \in Writers |-> <<>>]
    /\ preWrites = buf
    /\ live = <<>>
    /\ attachLog = <<>>

\* The logging module as above, next to an otel module with the default
\* options.
InitBridge(lvl, prefix, made, buf) ==
    /\ InitLogging(lvl, prefix, made, buf)
    /\ InitOtel(NoExporter, <<>>)

\* The state after the module is constructed and provisioned with the default
\* options: no logger yet, no bridge core yet.
Init == InitBridge(InfoLevel, "", FALSE, <<>>)

\* The logs of an earlier writer (writer 0, which has returned) that leave two
\* free places in the buffer.
Prefilled ==
    [i \in 1 .. (BufferCap - 2) |->
        BufferedLog(Entry(0, i, InfoLevel), <<Field("msg")>>)]

\* The state in which that writer has filled the buffer up to two places
\* below its capacity, before any target is attached.
InitFull == InitBridge(InfoLevel, "", TRUE, Prefilled)

\* ----------------------------------------------------- Logging.Logger
\* Logging.Logger(mod) when the calls are made one after the other, as the
\* host's provisioning makes them: constructs the singleton logger and the
\* bridge core on the first call, and returns a handle (logger.Named) to the
\* caller. The statements of concurrent calls are LoggerTest to LoggerReturn.
Logger(w) ==
    /\ pc[w] = "none"
    /\ logger' = TRUE
    /\ bridgeCore' = TRUE
    /\ handles' = IF logger THEN handles ELSE <<RootHandle>>
    /\ derived' = IF logger THEN derived ELSE <<(<<>>)>>
    /\ pc' = [pc EXCEPT ![w] = "idle"]
    /\ UNCHANGED <<otelVars, level, fieldsPrefix, ctorVars, arrays, holds, bridgeVars, cur, hfields, sfields, nwrites,
                   nwith, ret, regVars, obsVars, histVars>>

\* ---------------------------------- Logging.Logger, concurrent callers
\* Line 108: if logger == nil, read with no lock held.
LoggerTest(w) ==
    /\ lpc[w] = "idle"
    /\ lpc' = [lpc EXCEPT ![w] = IF loggerPtr = 0 THEN "construct" ELSE "return"]
    /\ UNCHANGED <<otelVars, logger, bridgeCore, level, fieldsPrefix, handleVars, loggerPtr,
                   bridgeCorePtr, nbridges, newCore, handle, attachedTo,
                   bridgeVars, writerVars, regVars, obsVars, histVars>>

\* Lines 109-134: under bridgeCoreMu, log.bridgeCore = newBridgeCore(level);
\* the tee is built over that core.
LoggerConstruct(w) ==
    /\ lpc[w] = "construct"
    /\ nbridges' = nbridges + 1
    /\ bridgeCorePtr' = nbridges + 1
    /\ newCore' = [newCore EXCEPT ![w] = nbridges + 1]
    /\ lpc' = [lpc EXCEPT ![w] = "publish"]
    /\ UNCHANGED <<otelVars, logger, bridgeCore, level, fieldsPrefix, handleVars, loggerPtr,
                   handle, attachedTo, bridgeVars, writerVars, regVars, obsVars,
                   histVars>>

\* Line 136: logger = zap.New(teeCore), written with no lock held.
LoggerPublish(w) ==
    /\ lpc[w] = "publish"
    /\ loggerPtr' = newCore[w]
    /\ lpc' = [lpc EXCEPT ![w] = "return"]
    /\ UNCHANGED <<otelVars, logger, bridgeCore, level, fieldsPrefix, handleVars,
                   bridgeCorePtr, nbridges, newCore, handle, attachedTo,
                   bridgeVars, writerVars, regVars, obsVars, histVars>>

\* Line 139: return logger.Named(...), which reads the package variable.
LoggerReturn(w) ==
    /\ lpc[w] = "return"
    /\ handle' = [handle EXCEPT ![w] = loggerPtr]
    /\ lpc' = [lpc EXCEPT ![w] = "done"]
    /\ UNCHANGED <<otelVars, logger, bridgeCore, level, fieldsPrefix, handleVars, loggerPtr,
                   bridgeCorePtr, nbridges, newCore, attachedTo, bridgeVars,
                   writerVars, regVars, obsVars, histVars>>

\* Lines 143-152, RegisterCore next to those callers: under bridgeCoreMu,
\* SetTarget on log.bridgeCore when it is not nil; nil is returned either way.
RegisterCoreOn ==
    /\ nreg < MaxRegister
    /\ nreg' = nreg + 1
    /\ attachedTo' = IF bridgeCorePtr # 0
                     THEN attachedTo \cup {bridgeCorePtr}
                     ELSE attachedTo
    /\ UNCHANGED <<otelVars, logger, bridgeCore, level, fieldsPrefix, handleVars, loggerPtr,
                   bridgeCorePtr, nbridges, lpc, newCore, handle, bridgeVars,
                   writerVars, regPc, regCore, ri, obsVars, histVars>>

\* The components that ask for a logger while the module graph is provisioned.
NextLogger ==
    \/ \E w \in Writers : LoggerTest(w)
    \/ \E w \in Writers : LoggerConstruct(w)
    \/ \E w \in Writers : LoggerPublish(w)
    \/ \E w \in Writers : LoggerReturn(w)
    \/ RegisterCoreOn

SpecLogger == Init /\ [][NextLogger]_vars

\* ------------------------------------------------------ bridgeCore.With
\* fields: append(b.fields[:len(b.fields):len(b.fields)], fields...)
WithFieldsOf(fs, more) == fs \o more

With(w, fs) ==
    /\ pc[w] = "idle"
    /\ Total(nwith) < MaxWith
    /\ nwith' = [nwith EXCEPT ![w] = @ + 1]
    /\ hfields' = [hfields EXCEPT ![w] = WithFieldsOf(@, fs)]
    /\ UNCHANGED <<otelVars, logVars, bridgeVars, pc, cur, sfields, nwrites, ret, regVars,
                   obsVars, histVars>>

\* Handles derived in all.
MaxHandles == 5
\* The fields With is called with.
HandleFields == {<<Field("a")>>, <<Field("b")>>, <<Field("c"), Field("d")>>}

\* Mutant: the slice keeps its capacity.
WithCap_Kept(sl) == sl.cap

\* b.fields[:len(b.fields):len(b.fields)]: the capacity is cut to the length.
WithCap(sl) == sl.len

\* bridgeCore.With on the handle h: &bridgeCore{level: b.level, shared:
\* b.shared, fields: append(b.fields[:len(b.fields):len(b.fields)], fields...)}
WithOn(h, fs) ==
    /\ h \in DOMAIN handles
    /\ Len(handles) < MaxHandles
    /\ LET b == handles[h]
           cut == [b.fields EXCEPT !.cap = WithCap(b.fields)]
           r == AppendSlice(arrays, cut, fs)
       IN  /\ arrays' = r.arrays
           /\ handles' = Append(handles, Handle(b.shared, r.slice))
           /\ derived' = Append(derived, derived[h] \o fs)
    /\ UNCHANGED <<otelVars, logger, bridgeCore, level, fieldsPrefix, ctorVars,
                   holds, bridgeVars, writerVars, regVars, obsVars, histVars>>

\* Write calls made through the derived handles, in all.
MaxHandleWrites == 1

\* bridgeCore.Write on the handle h, up to the lock: allFields is b.fields of
\* h, read now, followed by the fields of the call.
WriteOn(w, h, l, fs) ==
    /\ pc[w] = "idle"
    /\ h \in DOMAIN handles
    /\ Total(nwrites) < MaxHandleWrites
    /\ nwrites' = [nwrites EXCEPT ![w] = @ + 1]
    /\ holds' = [holds EXCEPT ![w] = h]
    /\ LET all == SliceRead(arrays, handles[h].fields) \o fs
           log == BufferedLog(Entry(w, nwrites[w] + 1, l), all)
       IN  /\ hfields' = [hfields EXCEPT ![w] = SliceRead(arrays, handles[h].fields)]
           /\ wrote' = [wrote EXCEPT ![w] = Append(@, log)]
           /\ IF HasInternal(all)
              THEN /\ ret' = [ret EXCEPT ![w] = "nil"]
                   /\ UNCHANGED <<pc, cur>>
              ELSE /\ ret' = [ret EXCEPT ![w] = "none"]
                   /\ pc' = [pc EXCEPT ![w] = "lock"]
                   /\ cur' = [cur EXCEPT ![w] = log]
    /\ UNCHANGED <<otelVars, logger, bridgeCore, level, fieldsPrefix, ctorVars,
                   arrays, handles, derived, bridgeVars, sfields, nwith, regVars,
                   obsVars, preWrites, live, attachLog>>

\* ----------------------------------------------------- bridgeCore.Write
\* allFields = b.fields followed by fields
AllFields(w, fs) == hfields[w] \o fs

\* Lines 85-93 of Write, for the entry e and the call's fields fs: build
\* allFields and return nil at once when a field carries the internal key;
\* otherwise go on to take the lock.
WriteEnter(w, e, fs) ==
    LET all == AllFields(w, fs)
        log == BufferedLog(e, all)
    IN  /\ wrote' = [wrote EXCEPT ![w] = Append(@, log)]
        /\ IF HasInternal(all)
           THEN /\ ret' = [ret EXCEPT ![w] = "nil"]
                /\ UNCHANGED <<pc, cur>>
           ELSE /\ ret' = [ret EXCEPT ![w] = "none"]
                /\ pc' = [pc EXCEPT ![w] = "lock"]
                /\ cur' = [cur EXCEPT ![w] = log]

WriteCall(w, l, fs) ==
    /\ pc[w] = "idle"
    /\ Total(nwrites) < MaxWrites
    /\ nwrites' = [nwrites EXCEPT ![w] = @ + 1]
    /\ WriteEnter(w, Entry(w, nwrites[w] + 1, l), fs)
    /\ UNCHANGED <<otelVars, logVars, bridgeVars, hfields, sfields, nwith, regVars, obsVars,
                   preWrites, live, attachLog>>

\* Mutant: Lock returns whoever holds the mutex.
LockFree_Always(m) == TRUE

\* Lock returns when no goroutine holds the mutex.
LockFree(m) == m = 0

\* b.shared.mu.Lock()
WriteLock(w) ==
    /\ pc[w] = "lock"
    /\ LockFree(mu)
    /\ mu' = w
    /\ pc' = [pc EXCEPT ![w] = "crit"]
    /\ UNCHANGED <<otelVars, logVars, target, buffer, cur, hfields, sfields, nwrites, nwith, ret,
                   regVars, obsVars, histVars>>

\* Mutant: Write never sees the target.
WriteForwards_Never(tgt) == FALSE

\* if b.shared.target != nil { return b.shared.target.Write(ent, allFields) }
WriteForwards(tgt) == tgt # NoTarget

\* Lines 98-109 of Write and the deferred Unlock.
WriteCrit(w) ==
    /\ pc[w] = "crit"
    /\ mu = w
    /\ IF WriteForwards(target)
       THEN /\ delivered' = [delivered EXCEPT ![target] = Append(@, cur[w])]
            /\ live' = Append(live, cur[w])
            /\ UNCHANGED <<buffer, preWrites>>
       ELSE /\ buffer' = Append1000(buffer, cur[w])
            /\ preWrites' = Append(preWrites, cur[w])
            /\ UNCHANGED <<delivered, live>>
    /\ ret' = [ret EXCEPT ![w] = "nil"]
    /\ mu' = 0
    /\ pc' = [pc EXCEPT ![w] = "idle"]
    /\ cur' = [cur EXCEPT ![w] = NoLog]
    /\ UNCHANGED <<otelVars, logVars, target, hfields, sfields, nwrites, nwith, regVars,
                   stdOut, wrote, attachLog>>

\* ------------------------------ bridgeCore.Enabled, Check and Sync
\* Each takes the read lock, which no goroutine can while one holds the write
\* lock, reads the target, returns and releases the lock. None of them writes
\* to the shared state.

\* Enabled(lvl): the target's answer once attached, b.level's before.
EnabledResult(l) ==
    IF target # NoTarget THEN TargetEnabled(target, l) ELSE l >= level

\* Check(ent, ce): the core added to the checked entry, which is the target's
\* own decision once attached and the bridge core itself before.
CheckResult(l) ==
    IF target # NoTarget
    THEN (IF TargetEnabled(target, l) THEN "target" ELSE "nil")
    ELSE "bridge"

\* Sync(): the target's Sync once attached, nil before.
SyncResult == IF target # NoTarget THEN "target" ELSE "nil"

Enabled(w, l) ==
    /\ pc[w] = "idle"
    /\ mu = 0
    /\ UNCHANGED vars

Check(w, l) ==
    /\ pc[w] = "idle"
    /\ mu = 0
    /\ UNCHANGED vars

Sync(w) ==
    /\ pc[w] = "idle"
    /\ mu = 0
    /\ UNCHANGED vars

\* ------------------------- Logging.RegisterCore and bridgeCore.SetTarget
\* RegisterCore(core): under bridgeCoreMu, SetTarget when the bridge core
\* exists; returns nil either way.
RegisterCore(t) ==
    /\ regPc = "idle"
    /\ nreg < MaxRegister
    /\ nreg' = nreg + 1
    /\ IF bridgeCore
       THEN regPc' = "lock" /\ regCore' = t
       ELSE UNCHANGED <<regPc, regCore>>
    /\ UNCHANGED <<otelVars, logVars, bridgeVars, writerVars, ri, obsVars, histVars>>

\* b.shared.mu.Lock()
SetTargetLock ==
    /\ regPc = "lock"
    /\ LockFree(mu)
    /\ mu' = Registrar
    /\ regPc' = "crit"
    /\ UNCHANGED <<otelVars, logVars, target, buffer, writerVars, regCore, nreg, ri, obsVars,
                   histVars>>

\* Mutant: the buffer is not cleared after the replay.
SetTargetBuffer_Kept(buf) == buf

\* b.shared.buffer = nil
SetTargetBuffer(buf) == <<>>

\* Lines 43-51 of SetTarget and the deferred Unlock.
SetTarget ==
    /\ regPc = "crit"
    /\ mu = Registrar
    /\ target' = regCore
    /\ delivered' = [delivered EXCEPT ![regCore] = @ \o Replay(regCore, buffer)]
    /\ buffer' = SetTargetBuffer(buffer)
    /\ mu' = 0
    /\ regPc' = "idle"
    /\ attachLog' = Append(attachLog, regCore)
    /\ UNCHANGED <<otelVars, logVars, writerVars, regCore, nreg, ri, stdOut, wrote,
                   preWrites, live>>

\* SetTarget statement by statement, for what the writers can see of it.
\* Line 43: b.shared.target = core, and the range loop begins.
SetTargetAssign ==
    /\ regPc = "crit"
    /\ target' = regCore
    /\ attachLog' = Append(attachLog, regCore)
    /\ ri' = 1
    /\ regPc' = "replay"
    /\ UNCHANGED <<otelVars, logVars, mu, buffer, writerVars, regCore, nreg,
                   obsVars, wrote, preWrites, live>>

\* Lines 45-49: one turn of the loop, for the buffered log at the index.
SetTargetReplayOne ==
    /\ regPc = "replay"
    /\ ri <= Len(buffer)
    /\ delivered' = [delivered EXCEPT ![target] = @ \o Replay(target, <<buffer[ri]>>)]
    /\ ri' = ri + 1
    /\ UNCHANGED <<otelVars, logVars, bridgeVars, writerVars, regPc, regCore,
                   nreg, stdOut, histVars>>

\* Line 51 and the deferred Unlock, after the last turn of the loop.
SetTargetClear ==
    /\ regPc = "replay"
    /\ ri > Len(buffer)
    /\ buffer' = SetTargetBuffer(buffer)
    /\ mu' = 0
    /\ ri' = 0
    /\ regPc' = "idle"
    /\ UNCHANGED <<otelVars, logVars, target, writerVars, regCore, nreg, obsVars,
                   histVars>>

\* ------------------------------------------------------------- rootCore
\* The fields after rootCore.With or rootCore.Write has run over them:
\* fields[i].Key = c.fieldsPrefix + "_" + fields[i].Key, in place, when a
\* prefix is set.
PrefixKeys(prefix, fs) ==
    IF prefix # ""
    THEN [i \in DOMAIN fs |-> [fs[i] EXCEPT !.key = prefix \o "_" \o @]]
    ELSE fs

\* Mutant: the level is left as it is.
ClampLevel_None(e) == e

\* if entry.Level < zapcore.DebugLevel { entry.Level = zapcore.DebugLevel }
ClampLevel(e) == IF e.lvl < DebugLevel THEN [e EXCEPT !.lvl = DebugLevel] ELSE e

\* Enabled of the local core, built by newStdCore with the configured level;
\* rootCore has no Enabled of its own and answers with its inner core's.
StdEnabled(l) == l >= level

\* The logger of Logging.Logger writes to zapcore.NewTee(rootCore{stdCore},
\* rootCore{bridgeCore}). The tee hands the one fields slice it was given to
\* each of its cores in turn, so what the second rootCore receives is what the
\* first left in the slice.
TeeFieldsStd(fs) == PrefixKeys(fieldsPrefix, fs)
TeeFieldsBridge(fs, stdRan) ==
    PrefixKeys(fieldsPrefix, IF stdRan THEN TeeFieldsStd(fs) ELSE fs)

\* rootCore.With on both cores of the tee (logger.With).
SinkWith(w, fs) ==
    /\ pc[w] = "idle"
    /\ Total(nwith) < MaxWith
    /\ nwith' = [nwith EXCEPT ![w] = @ + 1]
    /\ sfields' = [sfields EXCEPT ![w] = @ \o TeeFieldsStd(fs)]
    /\ hfields' = [hfields EXCEPT ![w] = WithFieldsOf(@, TeeFieldsBridge(fs, TRUE))]
    /\ UNCHANGED <<otelVars, logVars, bridgeVars, pc, cur, nwrites, ret, regVars,
                   obsVars, histVars>>

\* rootCore.Write on both cores of the tee (Core.Write on the logger's core):
\* clamp the level, prefix the keys, write to the inner core.
SinkWrite(w, l, fs) ==
    /\ pc[w] = "idle"
    /\ Total(nwrites) < MaxLogs
    /\ nwrites' = [nwrites EXCEPT ![w] = @ + 1]
    /\ LET e == ClampLevel(Entry(w, nwrites[w] + 1, l))
       IN  /\ stdOut' = Append(stdOut,
                               BufferedLog(e, sfields[w] \o TeeFieldsStd(fs)))
           /\ WriteEnter(w, e, TeeFieldsBridge(fs, TRUE))
    /\ UNCHANGED <<otelVars, logVars, bridgeVars, hfields, sfields, nwith, regVars,
                   delivered, preWrites, live, attachLog>>

\* A log call on the logger (Info, Debug, or a logr V-level through zapr):
\* the logger asks its core whether the level is enabled, then rootCore.Check
\* of each core clamps the level and adds the core when its inner core is
\* enabled at the clamped level, then rootCore.Write runs on the added cores.
\* bridgeCore.Enabled takes the read lock.
SinkLog(w, l, fs) ==
    /\ pc[w] = "idle"
    /\ Total(nwrites) < MaxLogs
    /\ mu = 0
    /\ nwrites' = [nwrites EXCEPT ![w] = @ + 1]
    /\ LET e == ClampLevel(Entry(w, nwrites[w] + 1, l))
           pre == StdEnabled(l) \/ EnabledResult(l)
           addStd == pre /\ StdEnabled(e.lvl)
           addBridge == pre /\ EnabledResult(e.lvl)
       IN  /\ stdOut' = IF addStd
                        THEN Append(stdOut, BufferedLog(ClampLevel(e),
                                        sfields[w] \o TeeFieldsStd(fs)))
                        ELSE stdOut
           /\ IF addBridge
              THEN WriteEnter(w, ClampLevel(e), TeeFieldsBridge(fs, addStd))
              ELSE UNCHANGED <<wrote, ret, pc, cur>>
    /\ UNCHANGED <<otelVars, logVars, bridgeVars, hfields, sfields, nwith, regVars,
                   delivered, preWrites, live, attachLog>>

\* Levels logged through the logger, fields passed to it, prefixes configured.
SinkLevels == {TraceLevel, DebugLevel, InfoLevel}
SinkFields == {<<Field("count")>>, <<Field(internalKey)>>}
Prefixes == {"", "app"}
\* The goroutine that logs through the logger.
LogWriters == {1}

\* Any log level and either prefix configured; no logger yet.
InitSink ==
    \E lvl \in LogLevels, prefix \in Prefixes : InitBridge(lvl, prefix, FALSE, <<>>)

\* The logger in front of the bridge: the writers log through the tee.
NextSink ==
    \/ \E w \in LogWriters : Logger(w)
    \/ \E w \in LogWriters, fs \in SinkFields : SinkWith(w, fs)
    \/ \E w \in LogWriters, l \in SinkLevels, fs \in SinkFields : SinkWrite(w, l, fs)
    \/ \E w \in LogWriters, l \in SinkLevels, fs \in SinkFields : SinkLog(w, l, fs)
    \/ \E w \in LogWriters : WriteLock(w)
    \/ \E w \in LogWriters : WriteCrit(w)
    \/ \E t \in Targets : RegisterCore(t)
    \/ SetTargetLock
    \/ SetTarget

SpecSink == InitSink /\ [][NextSink]_vars

\* --------------------------------------------------------- Otel.Validate
\* errors.New("service name must not be empty")
ServiceNameError == "service name must not be empty"
\* errors.New("currently, only the 'grpc' protocol is supported for the OTLP
\* ... exporter")
ProtocolError(e) == "only the 'grpc' protocol is supported for the OTLP " \o e \o " exporter"

\* Lines 149-155, and the same for the two other exporters: the error appended
\* for e, if any.
ProtocolErrors(e) ==
    IF enableExporter[e] /\ protocol[e] # "grpc" THEN <<ProtocolError(e)>> ELSE <<>>

\* Mutant: Validate returns at the first violation.
ValidateResult_First ==
    IF ~AnyEnabled THEN <<>>
    ELSE LET all == (IF serviceName = "" THEN <<ServiceNameError>> ELSE <<>>)
                        \o ProtocolErrors("log") \o ProtocolErrors("metric")
                        \o ProtocolErrors("span")
         IN  IF all = <<>> THEN <<>> ELSE <<Head(all)>>

\* The error Validate returns, as the list of the errors multierr.Append has
\* collected; nil is the empty list.
ValidateResult ==
    IF ~AnyEnabled THEN <<>>
    ELSE (IF serviceName = "" THEN <<ServiceNameError>> ELSE <<>>)
             \o ProtocolErrors("log") \o ProtocolErrors("metric")
             \o ProtocolErrors("span")

\* Validate(), called by the host after Provision.
Validate ==
    /\ validatePc = "idle"
    /\ validatePc' = "returned"
    /\ validateRet' = ValidateResult
    /\ UNCHANGED <<serviceName, protocol, traceVars, logVars, bridgeVars,
                   writerVars, regVars, obsVars, histVars, enableExporter,
                   metrics, provider, pollerVars, startPc, startRet, stopPc, task,
                   errChan, errs, stopRet, shut>>

\* Any exporters enabled, either service name, any protocols.
InitValidate ==
    \E en \in [ExporterSet -> BOOLEAN], name \in ServiceNames,
       proto \in [ExporterSet -> Protocols] :
        /\ InitLogging(InfoLevel, "", TRUE, <<>>)
        /\ InitExporters(en, <<>>)
        /\ InitConfig(name, proto)

NextValidate == Validate

SpecValidate == InitValidate /\ [][NextValidate]_vars

\* ------------------------------------------------------------ Otel.Start
\* Start returns err.
StartReturns(err) ==
    /\ startPc' = "returned"
    /\ startRet' = err

\* Lines 193-208 of Start: nothing to do with no exporter enabled; otherwise
\* the internal logger is set and the host name looked up.
StartCall(hostOk) ==
    /\ startPc = "idle"
    /\ stopPc = "idle"
    /\ IF ~AnyEnabled THEN StartReturns(NilErr)
       ELSE IF ~hostOk THEN StartReturns(<<"get hostname">>)
       ELSE startPc' = "log" /\ UNCHANGED startRet
    /\ UNCHANGED <<cfgVars, traceVars, logVars, bridgeVars, writerVars, regVars, obsVars, histVars,
                   enableExporter, metrics, provider, pollerVars, stopPc, task,
                   errChan, errs, stopRet, shut>>

\* Lines 216-236 of Start: build the log exporter and its provider, and call
\* RegisterCore on the hook with the otelzap core, which is enabled at every
\* level.
StartLog(ok) ==
    /\ startPc = "log"
    /\ regPc = "idle"
    /\ IF ~enableExporter["log"]
       THEN /\ startPc' = "metric"
            /\ UNCHANGED <<startRet, provider, regPc, regCore>>
       ELSE IF ~ok
       THEN /\ StartReturns(<<"create OTLP log exporter">>)
            /\ UNCHANGED <<provider, regPc, regCore>>
       ELSE /\ provider' = [provider EXCEPT !["log"] = TRUE]
            /\ startPc' = "register"
            /\ IF bridgeCore
               THEN regPc' = "lock" /\ regCore' = "all"
               ELSE UNCHANGED <<regPc, regCore>>
            /\ UNCHANGED startRet
    /\ UNCHANGED <<cfgVars, traceVars, logVars, bridgeVars, writerVars, nreg, ri, obsVars, histVars,
                   enableExporter, metrics, pollerVars, stopPc, task, errChan,
                   errs, stopRet, shut>>

\* Lines 236-240 of Start: RegisterCore has returned, and returns nil.
StartRegistered ==
    /\ startPc = "register"
    /\ regPc = "idle"
    /\ startPc' = "metric"
    /\ UNCHANGED <<cfgVars, traceVars, logVars, bridgeVars, writerVars, regVars, obsVars, histVars,
                   enableExporter, metrics, provider, pollerVars, startRet, stopPc,
                   task, errChan, errs, stopRet, shut>>

\* Mutant: the loop goes on after an instrument could not be created.
StartPollers_NoAbort(ms, instrOk, spawned) ==
    [pollers |-> spawned \o ms,
     err |-> IF instrOk THEN NilErr ELSE <<"create instrument">>]

RECURSIVE StartPollers(_, _, _)
\* for _, m := range mod.metrics: create the instrument of m and start its
\* polling goroutine; return at the first instrument that cannot be created
\* or is not known.
StartPollers(ms, instrOk, spawned) ==
    IF ms = <<>> THEN [pollers |-> spawned, err |-> NilErr]
    ELSE IF Head(ms) \notin Instruments
    THEN [pollers |-> spawned, err |-> <<"unknown instrument">>]
    ELSE IF ~instrOk
    THEN [pollers |-> spawned, err |-> <<"create instrument">>]
    ELSE StartPollers(Tail(ms), instrOk, Append(spawned, Head(ms)))

\* Lines 242-316 of Start.
StartMetric(ok, instrOk) ==
    /\ startPc = "metric"
    /\ IF ~enableExporter["metric"]
       THEN /\ startPc' = "span"
            /\ UNCHANGED <<startRet, provider, pollerVars>>
       ELSE IF ~ok
       THEN /\ StartReturns(<<"create OTLP metric exporter">>)
            /\ UNCHANGED <<provider, pollerVars>>
       ELSE LET r == StartPollers(metrics, instrOk, pollers)
            IN  /\ provider' = [provider EXCEPT !["metric"] = TRUE]
                /\ pollers' = r.pollers
                /\ ppc' = [i \in DOMAIN r.pollers |-> "record"]
                /\ lastRec' = [i \in DOMAIN r.pollers |-> "never"]
                /\ IF r.err # NilErr
                   THEN StartReturns(r.err)
                   ELSE startPc' = "span" /\ UNCHANGED startRet
    /\ UNCHANGED <<cfgVars, traceVars, logVars, bridgeVars, writerVars, regVars, obsVars, histVars,
                   enableExporter, metrics, stopPc, task, errChan, errs, stopRet,
                   shut>>

\* The loop of a polling goroutine, lines 264-269 (and the same for the three
\* other instruments): counter.Add(ctx, metric.Read()), at once when the
\* goroutine starts and after every sleep. The goroutines end with the
\* process only.
PollerRecord(i) ==
    /\ i \in DOMAIN pollers
    /\ stopPc # "panicked"
    /\ ppc[i] = "record"
    /\ ppc' = [ppc EXCEPT ![i] = "sleep"]
    /\ lastRec' = [lastRec EXCEPT ![i] =
                      IF stopPc = "returned" THEN "after Stop" ELSE "before Stop"]
    /\ UNCHANGED <<cfgVars, traceVars, logVars, bridgeVars, writerVars, regVars,
                   obsVars, histVars, enableExporter, metrics, provider, pollers,
                   startPc, startRet, stopPc, task, errChan, errs, stopRet, shut>>

\* Mutant: the goroutine returns after its first record.
PollerSleep_Returns(i) ==
    /\ i \in DOMAIN pollers
    /\ stopPc # "panicked"
    /\ ppc[i] = "sleep"
    /\ ppc' = [ppc EXCEPT ![i] = "returned"]
    /\ UNCHANGED <<cfgVars, traceVars, logVars, bridgeVars, writerVars, regVars,
                   obsVars, histVars, enableExporter, metrics, provider, pollers,
                   lastRec, startPc, startRet, stopPc, task, errChan, errs,
                   stopRet, shut>>

\* time.Sleep(mod.metricsCollectInterval) returns.
PollerSleep(i) ==
    /\ i \in DOMAIN pollers
    /\ stopPc # "panicked"
    /\ ppc[i] = "sleep"
    /\ ppc' = [ppc EXCEPT ![i] = "record"]
    /\ UNCHANGED <<cfgVars, traceVars, logVars, bridgeVars, writerVars, regVars,
                   obsVars, histVars, enableExporter, metrics, provider, pollers,
                   lastRec, startPc, startRet, stopPc, task, errChan, errs,
                   stopRet, shut>>

\* Lines 318-334 of Start.
StartSpan(ok) ==
    /\ startPc = "span"
    /\ IF ~enableExporter["span"]
       THEN StartReturns(NilErr) /\ UNCHANGED <<provider, otlpTracer>>
       ELSE IF ~ok
       THEN /\ StartReturns(<<"OTLP span exporter">>)
            /\ UNCHANGED <<provider, otlpTracer>>
       ELSE /\ provider' = [provider EXCEPT !["span"] = TRUE]
            /\ otlpTracer' = TRUE
            /\ StartReturns(NilErr)
    /\ UNCHANGED <<cfgVars, traceRet, logVars, bridgeVars, writerVars, regVars, obsVars,
                   histVars, enableExporter, metrics, pollerVars, stopPc, task,
                   errChan, errs, stopRet, shut>>

\* -------------------------------------------------------- Otel.TraceStart
\* What TraceStart returns as its span: the tracer's span when the span
\* exporter is enabled, which is a call on a nil interface (a panic in the
\* caller) until Start has set otlpTracer; nil when it is disabled.
TraceStartResult ==
    IF enableExporter["span"]
    THEN (IF otlpTracer THEN "span" ELSE "panic")
    ELSE "nil"

\* TraceStart(ctx, name), called by any component after Provision.
TraceStart ==
    /\ stopPc # "panicked"
    /\ traceRet' = TraceStartResult
    /\ UNCHANGED <<cfgVars, otlpTracer, logVars, bridgeVars, writerVars, regVars, obsVars,
                   histVars, enableExporter, metrics, provider, pollerVars, startPc,
                   startRet, stopPc, task, errChan, errs, stopRet, shut>>

\* ------------------------------------------------------------- Otel.Stop
\* Lines 359-395 of Stop: nothing to do with no exporter enabled; otherwise
\* the three channels are made and the three goroutines started, and Stop
\* waits on errLogChan. The host calls Stop when Start is not running.
StopCall ==
    /\ stopPc = "idle"
    /\ startPc \in {"idle", "returned"}
    /\ IF ~AnyEnabled
       THEN /\ stopPc' = "returned"
            /\ UNCHANGED task
       ELSE /\ stopPc' = "log"
            /\ task' = [e \in ExporterSet |-> "running"]
    /\ UNCHANGED <<cfgVars, traceVars, logVars, bridgeVars, writerVars, regVars, obsVars, histVars,
                   enableExporter, metrics, provider, pollerVars, startPc, startRet,
                   errChan, errs, stopRet, shut>>

\* make(chan error, 1)
ChanCap == 1

\* Mutant: the channels are unbuffered, and Stop is not yet receiving.
ChanHasRoom_Unbuffered(c) == Len(c) < 0

\* A send on the channel does not block.
ChanHasRoom(c) == Len(c) < ChanCap

\* One goroutine of Stop: send nil when its exporter is disabled, otherwise
\* send what the provider's Shutdown returns. Shutdown on a nil provider is a
\* nil pointer dereference, which ends the process. The channel has room for
\* the one value sent on it.
TaskRun(e, r) ==
    /\ stopPc \notin {"idle", "panicked"}
    /\ task[e] = "running"
    /\ ChanHasRoom(errChan[e])
    /\ IF ~enableExporter[e]
       THEN /\ errChan' = [errChan EXCEPT ![e] = Append(@, NilErr)]
            /\ task' = [task EXCEPT ![e] = "done"]
            /\ UNCHANGED <<shut, stopPc>>
       ELSE IF ~provider[e]
       THEN /\ task' = [task EXCEPT ![e] = "panicked"]
            /\ stopPc' = "panicked"
            /\ UNCHANGED <<shut, errChan>>
       ELSE /\ shut' = [shut EXCEPT ![e] = Append(@, r)]
            /\ errChan' = [errChan EXCEPT ![e] = Append(@, r)]
            /\ task' = [task EXCEPT ![e] = "done"]
            /\ UNCHANGED stopPc
    /\ UNCHANGED <<cfgVars, traceVars, logVars, bridgeVars, writerVars, regVars, obsVars, histVars,
                   enableExporter, metrics, provider, pollerVars, startPc, startRet,
                   errs, stopRet>>

\* The receive Stop goes on to after the receive from e's channel.
AfterRecv(e) == IF e = "log" THEN "metric" ELSE IF e = "metric" THEN "span" ELSE "join"

\* Lines 397-399 of Stop: errLog := filterErr(<-errLogChan), then the same for
\* the metric and the tracer channels.
StopRecv(e) ==
    /\ stopPc = e
    /\ errChan[e] # <<>>
    /\ errs' = [errs EXCEPT ![e] = filterErr(Head(errChan[e]))]
    /\ errChan' = [errChan EXCEPT ![e] = Tail(@)]
    /\ stopPc' = AfterRecv(e)
    /\ UNCHANGED <<cfgVars, traceVars, logVars, bridgeVars, writerVars, regVars, obsVars, histVars,
                   enableExporter, metrics, provider, pollerVars, startPc, startRet,
                   task, stopRet, shut>>

\* Line 401 of Stop: return errors.Join(errLog, errMetric, errTracer)
StopReturn ==
    /\ stopPc = "join"
    /\ stopRet' = JoinErrs([i \in DOMAIN Exporters |-> errs[Exporters[i]]])
    /\ stopPc' = "returned"
    /\ UNCHANGED <<cfgVars, traceVars, logVars, bridgeVars, writerVars, regVars, obsVars, histVars,
                   enableExporter, metrics, provider, pollerVars, startPc, startRet,
                   task, errChan, errs, shut>>

\* The polling goroutines there can be: one per contributed metric.
PollerIds == UNION {DOMAIN ms : ms \in MetricLists}

\* Any exporters enabled, either list of metrics, and the logger the module
\* got in Provision from Logging.Logger.
InitLifecycle ==
    \E en \in [ExporterSet -> BOOLEAN], ms \in MetricLists :
        /\ InitLogging(InfoLevel, "", TRUE, <<>>)
        /\ InitOtel(en, ms)

\* The lifecycle of the otel module: Start, with the attachment of the otelzap
\* core it asks the logging module for, and Stop.
NextLifecycle ==
    \/ Validate
    \/ \E ok \in BOOLEAN : StartCall(ok)
    \/ \E ok \in BOOLEAN : StartLog(ok)
    \/ SetTargetLock
    \/ SetTarget
    \/ StartRegistered
    \/ \E ok \in BOOLEAN, instrOk \in BOOLEAN : StartMetric(ok, instrOk)
    \/ \E ok \in BOOLEAN : StartSpan(ok)
    \/ \E i \in PollerIds : PollerRecord(i)
    \/ \E i \in PollerIds : PollerSleep(i)
    \/ TraceStart
    \/ StopCall
    \/ \E e \in ExporterSet : \E r \in ShutdownResults(e) : TaskRun(e, r)
    \/ \E e \in ExporterSet : StopRecv(e)
    \/ StopReturn

SpecLifecycle == InitLifecycle /\ [][NextLifecycle]_vars

\* The scheduler runs every goroutine that can run, and a sleep ends: a
\* polling goroutine is never left waiting forever.
FairPollers ==
    \A i \in PollerIds : WF_vars(PollerRecord(i)) /\ WF_vars(PollerSleep(i))

SpecPollers == InitLifecycle /\ [][NextLifecycle]_vars /\ FairPollers

\* ------------------------------------------------------------------- Next
Next ==
    \/ \E w \in Writers : Logger(w)
    \/ \E w \in Writers, fs \in WithFields : With(w, fs)
    \/ \E w \in Writers, l \in EntryLevels, fs \in CallFields : WriteCall(w, l, fs)
    \/ \E w \in Writers : WriteLock(w)
    \/ \E w \in Writers : WriteCrit(w)
    \/ \E w \in Writers, l \in EntryLevels : Enabled(w, l)
    \/ \E w \in Writers, l \in EntryLevels : Check(w, l)
    \/ \E w \in Writers : Sync(w)
    \/ \E t \in Targets : RegisterCore(t)
    \/ SetTargetLock
    \/ SetTarget

Spec == Init /\ [][Next]_vars

\* Writes and attachments started from the nearly full buffer. The entries
\* are all logged at InfoLevel with one plain field: what a log carries does
\* not decide whether the buffer has room for it.
NextFull ==
    \/ \E w \in Writers : Logger(w)
    \/ \E w \in Writers : WriteCall(w, InfoLevel, <<Field("msg")>>)
    \/ \E w \in Writers : WriteLock(w)
    \/ \E w \in Writers : WriteCrit(w)
    \/ \E t \in Targets : RegisterCore(t)
    \/ SetTargetLock
    \/ SetTarget

SpecFull == InitFull /\ [][NextFull]_vars

\* ------------------------------- diagnostics logged from inside the target
\* Otel.Start sends the OpenTelemetry SDK's own diagnostics to mod.logger
\* (otel.SetLogger, otel.SetErrorHandler), a logger over the same tee: a log
\* call on it asks rootCore.Check of the bridge's rootCore, whose c.Enabled is
\* bridgeCore.Enabled, which begins with b.shared.mu.RLock().

\* A goroutine calls Enabled (a component logging, or the exporter's own
\* goroutine reporting an error): it is at the RLock.
EnabledCall(w) ==
    /\ pc[w] = "idle"
    /\ pc' = [pc EXCEPT ![w] = "rlock"]
    /\ UNCHANGED <<otelVars, logVars, bridgeVars, cur, hfields, sfields, nwrites,
                   nwith, ret, regVars, obsVars, histVars>>

\* The RLock is granted when no goroutine holds the write lock; Enabled reads
\* the target, unlocks and returns.
EnabledReturn(w) ==
    /\ pc[w] = "rlock"
    /\ mu = 0
    /\ pc' = [pc EXCEPT ![w] = "idle"]
    /\ UNCHANGED <<otelVars, logVars, bridgeVars, cur, hfields, sfields, nwrites,
                   nwith, ret, regVars, obsVars, histVars>>

\* Line 99 of Write: b.shared.target.Write(ent, allFields) runs with the write
\* lock held; the target reports a diagnostic on mod.logger from inside it, in
\* the same goroutine, which reaches the RLock of Enabled.
TargetWriteEmits(w) ==
    /\ pc[w] = "crit"
    /\ mu = w
    /\ WriteForwards(target)
    /\ pc' = [pc EXCEPT ![w] = "rlock"]
    /\ UNCHANGED <<otelVars, logVars, bridgeVars, cur, hfields, sfields, nwrites,
                   nwith, ret, regVars, obsVars, histVars>>

\* Lines 45-49 of SetTarget: the same from inside the target's Check or Write
\* of the replay, in the goroutine that holds the write lock in SetTarget.
ReplayEmits ==
    /\ regPc = "crit"
    /\ mu = Registrar
    /\ buffer # <<>>
    /\ regPc' = "rlock"
    /\ UNCHANGED <<otelVars, logVars, bridgeVars, writerVars, regCore, nreg, ri,
                   obsVars, histVars>>

\* Writers, the attachment, and a target that logs diagnostics.
NextReentry ==
    \/ \E w \in Writers : Logger(w)
    \/ \E w \in Writers, fs \in CallFields : WriteCall(w, InfoLevel, fs)
    \/ \E w \in Writers : WriteLock(w)
    \/ \E w \in Writers : WriteCrit(w)
    \/ \E w \in Writers : EnabledCall(w)
    \/ \E w \in Writers : EnabledReturn(w)
    \/ \E w \in Writers : TargetWriteEmits(w)
    \/ RegisterCore("all")
    \/ SetTargetLock
    \/ SetTarget
    \/ ReplayEmits

SpecReentry == Init /\ [][NextReentry]_vars

\* Writers next to an attachment whose statements they can interleave with.
NextReplay ==
    \/ \E w \in Writers : Logger(w)
    \/ \E w \in Writers : WriteCall(w, InfoLevel, <<Field("msg")>>)
    \/ \E w \in Writers : WriteLock(w)
    \/ \E w \in Writers : WriteCrit(w)
    \/ \E t \in Targets : RegisterCore(t)
    \/ SetTargetLock
    \/ SetTargetAssign
    \/ SetTargetReplayOne
    \/ SetTargetClear

SpecReplay == Init /\ [][NextReplay]_vars

\* Handles derived from handles, and one writer that writes through any of
\* them while the target is attached.
InitHandles == InitBridge(InfoLevel, "", TRUE, <<>>)

NextHandles ==
    \/ \E w \in LogWriters : Logger(w)
    \/ \E h \in 1 .. MaxHandles, fs \in HandleFields : WithOn(h, fs)
    \/ \E w \in LogWriters, h \in 1 .. MaxHandles :
           WriteOn(w, h, InfoLevel, <<Field("msg")>>)
    \/ \E w \in LogWriters : WriteLock(w)
    \/ \E w \in LogWriters : WriteCrit(w)
    \/ RegisterCore("all")
    \/ SetTargetLock
    \/ SetTarget

SpecHandles == InitHandles /\ [][NextHandles]_vars

\* ----------------------------------------------------------------- claims
\* What the claims speak of, stated without the operators of the model.
CarriesInternal(fs) == \E i \in DOMAIN fs : fs[i].key = internalKey
Count(seq, x) == Cardinality({i \in DOMAIN seq : seq[i] = x})
Take(seq, n) == SubSeq(seq, 1, n)
Min(a, b) == IF a < b THEN a ELSE b
OfWriter(seq, w) == SelectSeq(seq, LAMBDA x : x.ent.w = w)
NonInternal(seq) == SelectSeq(seq, LAMBDA x : ~CarriesInternal(x.fields))
IsPrefix(p, q) == Len(p) <= Len(q) /\ Take(q, Len(p)) = p
WritersQuiet == \A w \in Writers : pc[w] \in {"none", "idle"}
FirstAttachedAll == attachLog # <<>> /\ attachLog[1] = "all"

\* C1: entries written while no target is attached (at most 1000 of them, none
\* internal), followed by the attachment of a target that accepts every entry:
\* the target has observed exactly those entries first, in the order written,
\* each exactly once.
C1_BufferedReplayedInOrder ==
    (FirstAttachedAll /\ Len(preWrites) <= BufferCap) =>
        /\ IsPrefix(preWrites, delivered["all"])
        /\ \A i \in DOMAIN preWrites : Count(delivered["all"], preWrites[i]) = 1

C1_Witness ==
    /\ attachLog = <<"all">>
    /\ Len(preWrites) = 3
    /\ delivered["all"] = preWrites

\* C2: concurrent writers and one attachment of an accepting target anywhere in
\* the interleaving: once the writes have returned, every non-internal entry
\* written is in the target exactly once and nothing else is; and no log is
\* ever both appended to the buffer and forwarded live.
C2_ExactlyOnce ==
    /\ \A i \in DOMAIN preWrites, j \in DOMAIN live : preWrites[i] # live[j]
    /\ (attachLog = <<"all">> /\ WritersQuiet) =>
        /\ \A w \in Writers : \A i \in DOMAIN wrote[w] :
              Count(delivered["all"], wrote[w][i]) =
                  IF CarriesInternal(wrote[w][i].fields) THEN 0 ELSE 1
        /\ \A i \in DOMAIN delivered["all"] :
              \E w \in Writers : \E j \in DOMAIN wrote[w] :
                  wrote[w][j] = delivered["all"][i]

\* Two writers, the attachment between the writes: one log replayed from the
\* buffer, two forwarded live, one from each writer.
C2_Witness ==
    /\ attachLog = <<"all">>
    /\ WritersQuiet
    /\ Len(preWrites) = 1
    /\ Len(live) = 2
    /\ live[1].ent.w # live[2].ent.w
    /\ Len(delivered["all"]) = 3

\* C3: once SetTarget has returned, the buffer is empty and stays empty under
\* every step, and every Write that runs its critical section hands its log to
\* the attached target.
C3_ForwardingForever ==
    [][attachLog # <<>> =>
        /\ buffer = <<>>
        /\ buffer' = <<>>
        /\ \A w \in Writers :
              (pc[w] = "crit" /\ pc'[w] # "crit") =>
                  delivered'[target] = Append(delivered[target], cur[w])]_vars

C3_Witness ==
    /\ attachLog # <<>>
    /\ Len(live) >= 2
    /\ preWrites # <<>>
    /\ buffer = <<>>

\* C4: the buffer never holds more than 1000 logs; of k logs written before
\* the attachment the first min(k, 1000) are kept and replayed to an accepting
\* target, the others never reach it, and every Write returns nil, a dropped
\* one too.
C4_BoundedBuffer ==
    LET m == Min(Len(preWrites), BufferCap)
    IN  /\ Len(buffer) <= BufferCap
        /\ attachLog = <<>> => buffer = Take(preWrites, m)
        /\ FirstAttachedAll =>
              /\ IsPrefix(Take(preWrites, m), delivered["all"])
              /\ \A i \in DOMAIN preWrites :
                    i > m => Count(delivered["all"], preWrites[i]) = 0
        /\ \A w \in Writers : (pc[w] = "idle" /\ nwrites[w] > 0) => ret[w] = "nil"

\* 1001 logs written before the attachment, 1000 replayed.
C4_Witness ==
    /\ Len(preWrites) = BufferCap + 1
    /\ attachLog = <<"all">>
    /\ Len(delivered["all"]) = BufferCap
    /\ WritersQuiet
    /\ \E w \in Writers : nwrites[w] > 0 /\ ret[w] = "nil"
                          /\ preWrites[BufferCap + 1].ent.w = w

\* C5: a Write whose accumulated or call fields carry the internal key returns
\* nil at once and leaves no trace: its log is not in the buffer, not in any
\* target, neither replayed nor forwarded, before and after the attachment.
C5_InternalDropped ==
    /\ \A i \in DOMAIN buffer : ~CarriesInternal(buffer[i].fields)
    /\ \A t \in Targets : \A i \in DOMAIN delivered[t] :
          ~CarriesInternal(delivered[t][i].fields)
    /\ \A i \in DOMAIN preWrites : ~CarriesInternal(preWrites[i].fields)
    /\ \A i \in DOMAIN live : ~CarriesInternal(live[i].fields)
    /\ \A w \in Writers :
          (wrote[w] # <<>> /\ CarriesInternal(wrote[w][Len(wrote[w])].fields)) =>
              (pc[w] = "idle" /\ ret[w] = "nil" /\ cur[w] = NoLog)

\* After the attachment (its first log was forwarded live) a writer derives a
\* handle With the internal key and writes through it; the other writer
\* passes the internal key to Write itself.
C5_Witness ==
    /\ attachLog # <<>>
    /\ WritersQuiet
    /\ \E w \in Writers :
          /\ Len(wrote[w]) = 2
          /\ live = <<wrote[w][1]>>
          /\ wrote[w][2].fields = <<Field(internalKey), Field("msg")>>
          /\ ret[w] = "nil"
    /\ \E w \in Writers : wrote[w] # <<>> /\ wrote[w][1].fields = <<Field(internalKey)>>
    /\ Len(delivered[target]) = 1

\* C6: each target observes each writer's logs in the order the writer wrote
\* them, and the target attached first, when it accepts every entry, observes
\* a prefix of the writer's non-internal logs: none skipped, none reordered.
C6_PerWriterOrder ==
    \A w \in Writers :
        /\ \A t \in Targets :
              LET p == OfWriter(delivered[t], w)
              IN  \A i, j \in DOMAIN p : i < j => p[i].ent.n < p[j].ent.n
        /\ FirstAttachedAll =>
              IsPrefix(OfWriter(delivered["all"], w), NonInternal(wrote[w]))

\* The attachment between two writes of writer 1, writer 2 writing as well.
C6_Witness ==
    /\ attachLog = <<"all">>
    /\ Len(preWrites) = 2
    /\ Len(live) = 1
    /\ live[1].ent.w = 1
    /\ \E i \in DOMAIN preWrites : preWrites[i].ent.w = 1
    /\ \E i \in DOMAIN preWrites : preWrites[i].ent.w = 2
    /\ Len(delivered["all"]) = 3

\* C7: once a target is attached it stays the target: no later RegisterCore or
\* SetTarget replaces it.
C7_OneAttachment == [][target # NoTarget => target' = target]_vars

\* The logs the backends of the tee have received: the local core's, and the
\* bridge core's (being written, buffered, replayed or forwarded).
StdLogs == {stdOut[i] : i \in DOMAIN stdOut}
BridgeLogs ==
    {buffer[i] : i \in DOMAIN buffer}
    \cup {cur[w] : w \in {v \in Writers : pc[v] # "idle" /\ pc[v] # "none"}}
    \cup UNION {{wrote[w][i] : i \in DOMAIN wrote[w]} : w \in Writers}
    \cup UNION {{delivered[t][i] : i \in DOMAIN delivered[t]} : t \in Targets}
PrefixedOnce(fs) ==
    \A i \in DOMAIN fs : fs[i].key = fieldsPrefix \o "_" \o fs[i].val
Max(a, b) == IF a > b THEN a ELSE b

\* C8: with a non-empty prefix p, every backend of the tee (the local core and
\* the bridge core) receives each field named k under the key p_k, for the
\* fields of a log call and for the fields of With.
C8_PrefixedOnce ==
    fieldsPrefix # "" =>
        /\ \A log \in StdLogs \cup BridgeLogs : PrefixedOnce(log.fields)
        /\ \A w \in Writers : PrefixedOnce(sfields[w]) /\ PrefixedOnce(hfields[w])

\* C9 as stated: every log a backend receives carries the greater of the level
\* it was logged at and the configured log level.
C9_ConfiguredFloor ==
    \A log \in StdLogs \cup BridgeLogs : log.ent.lvl = Max(log.ent.l0, level)

\* C9 as amended: every log a backend receives through rootCore.Check and
\* rootCore.Write carries the greater of the level it was logged at and
\* DebugLevel, whatever log level is configured.
C9_DebugFloor ==
    \A log \in StdLogs \cup BridgeLogs : log.ent.lvl = Max(log.ent.l0, DebugLevel)

\* A log made below DebugLevel reached the attached core at DebugLevel, through
\* Check and Write, and a log made at InfoLevel reached the local core as is.
C9_Witness ==
    /\ level = DebugLevel
    /\ target = "all"
    /\ \E i \in DOMAIN live :
          live[i].ent.l0 = TraceLevel /\ live[i].ent.lvl = DebugLevel
    /\ \E log \in StdLogs : log.ent.l0 = InfoLevel /\ log.ent.lvl = InfoLevel

\* What Stop reported: the errors joined in its result.
Reported == {stopRet[i] : i \in DOMAIN stopRet}
\* The result of the shutdown of e's provider is r.
ShutdownReturned(e, r) == shut[e] = <<r>>

\* C10: when at least one exporter is enabled and Stop has returned, every
\* enabled exporter's provider was shut down once and no disabled exporter's
\* was; every shutdown result that is a failure without the cancellation
\* cause is among the errors Stop reports; every error Stop reports is, once,
\* the result of an enabled exporter's shutdown, and is neither nil nor the
\* cancellation error; and Stop returns nil when every result is nil or the
\* cancellation error.
C10_StopReportsSurvivors ==
    (stopPc = "returned" /\ AnyEnabled) =>
        /\ \A e \in ExporterSet :
               IF enableExporter[e] THEN Len(shut[e]) = 1 ELSE shut[e] = <<>>
        /\ \A e \in ExporterSet :
               ShutdownReturned(e, Failure(e)) => Failure(e) \in Reported
        /\ \A x \in Reported :
               /\ x \notin {NilErr, Canceled}
               /\ \E e \in ExporterSet : enableExporter[e] /\ ShutdownReturned(e, x)
        /\ Len(stopRet) = Cardinality(Reported)
        /\ (\A e \in ExporterSet : shut[e] \in {<<>>, <<NilErr>>, <<Canceled>>})
               => stopRet = <<>>

\* Stop has returned with all three exporters enabled: the log provider's
\* shutdown was cancelled, the two others failed, and both failures are
\* reported.
C10_Witness ==
    /\ stopPc = "returned"
    /\ \A e \in ExporterSet : enableExporter[e]
    /\ ShutdownReturned("log", Canceled)
    /\ ShutdownReturned("metric", Failure("metric"))
    /\ ShutdownReturned("span", Failure("span"))
    /\ stopRet = <<Failure("metric"), Failure("span")>>

\* C11: when Stop has returned, a shutdown result of an enabled exporter that
\* carries a failure other than cancellation together with the cancellation
\* cause is among the errors Stop reports.
C11_FailureWhileCanceledReported ==
    stopPc = "returned" =>
        \A e \in ExporterSet :
            (enableExporter[e] /\ ShutdownReturned(e, FailureWhileCanceled(e)))
                => FailureWhileCanceled(e) \in Reported

\* C12: in a process that has not crashed, a goroutine of Stop that has not
\* run yet can run whatever the two others have done (not started, still
\* running, returned a failure), and its send finds room in its channel; and
\* when Stop has returned with an exporter enabled, every goroutine has sent
\* its result and Stop has received all three.
C12_IndependentTasks ==
    /\ \A e \in ExporterSet :
           (task[e] = "running" /\ stopPc # "panicked") =>
               /\ ChanHasRoom(errChan[e])
               /\ ENABLED (\E r \in ShutdownResults(e) : TaskRun(e, r))
    /\ (stopPc = "returned" /\ AnyEnabled) =>
           \A e \in ExporterSet : task[e] = "done" /\ errChan[e] = <<>>
    /\ (stopPc \in {"log", "metric", "span", "join"}) =>
           \A e \in ExporterSet :
               (task[e] = "done" /\ errChan[e] = <<>>) <=>
                   \/ stopPc = "join"
                   \/ stopPc = "span" /\ e \in {"log", "metric"}
                   \/ stopPc = "metric" /\ e = "log"

\* Stop waits for the log provider's shutdown, which is slow, while the
\* metric provider's shutdown has failed and the trace provider's has
\* completed, each with its result delivered.
C12_Witness ==
    /\ stopPc = "log"
    /\ \A e \in ExporterSet : enableExporter[e]
    /\ task["log"] = "running"
    /\ ShutdownReturned("metric", Failure("metric"))
    /\ errChan["metric"] = <<Failure("metric")>>
    /\ task["span"] = "done"
    /\ errChan["span"] # <<>>

\* C13: with the three exporters disabled, Start and Stop are each either not
\* called or returned, both with nil, and nothing has happened: no provider
\* is built, RegisterCore was not called and no target is attached, no poller
\* and no goroutine of Stop is started, no Shutdown has run.
C13_DisabledInert ==
    (\A e \in ExporterSet : ~enableExporter[e]) =>
        /\ startPc \in {"idle", "returned"}
        /\ stopPc \in {"idle", "returned"}
        /\ startRet = NilErr
        /\ stopRet = <<>>
        /\ \A e \in ExporterSet :
               /\ ~provider[e]
               /\ task[e] = "none"
               /\ errChan[e] = <<>>
               /\ shut[e] = <<>>
        /\ pollers = <<>>
        /\ regPc = "idle"
        /\ target = NoTarget
        /\ attachLog = <<>>

\* Start and then Stop have both returned with every exporter disabled.
C13_Witness ==
    /\ \A e \in ExporterSet : ~enableExporter[e]
    /\ startPc = "returned"
    /\ stopPc = "returned"

\* C14: TraceStart never panics in its caller and never returns a nil span:
\* whatever it has returned is a span the caller can use and end.
C14_TraceStartUsable == traceRet \in {"none", "span"}

\* The errors Validate returned.
ValidateErrors == {validateRet[i] : i \in DOMAIN validateRet}
\* The exporters that are enabled with a protocol other than "grpc".
BadProtocol == {e \in ExporterSet : enableExporter[e] /\ protocol[e] # "grpc"}
NoneEnabled == \A e \in ExporterSet : ~enableExporter[e]

\* C15: when Validate has returned, its result is nil iff no exporter is
\* enabled or the service name is not empty and every enabled exporter's
\* protocol is "grpc"; otherwise it holds one error for the empty service name
\* if it is empty, one error for each enabled exporter whose protocol is not
\* "grpc", and nothing else (no error for a disabled exporter's protocol).
C15_ValidateCollectsAll ==
    validatePc = "returned" =>
        /\ (validateRet = <<>>) <=>
               (NoneEnabled \/ (serviceName # "" /\ BadProtocol = {}))
        /\ ~NoneEnabled =>
               /\ ValidateErrors =
                      {ProtocolError(e) : e \in BadProtocol}
                          \cup (IF serviceName = "" THEN {ServiceNameError} ELSE {})
               /\ Len(validateRet) = Cardinality(ValidateErrors)

\* Validate has returned three errors: the service name is empty, the log and
\* the span exporters are enabled with "http", and the metric exporter is
\* disabled, with "http" too.
C15_Witness ==
    /\ validatePc = "returned"
    /\ serviceName = ""
    /\ enableExporter = [e \in ExporterSet |-> e # "metric"]
    /\ protocol = [e \in ExporterSet |-> "http"]
    /\ validateRet = <<ServiceNameError, ProtocolError("log"), ProtocolError("span")>>

\* C16: at most one bridge core is ever constructed, and every logger a
\* caller has been returned writes through the bridge core that RegisterCore
\* sets its target on (Logging.bridgeCore).
C16_OneBridge ==
    /\ nbridges <= 1
    /\ \A w \in Writers : lpc[w] = "done" => handle[w] = bridgeCorePtr

\* C17: once a call of RegisterCore has returned (it always returns nil), the
\* bridge core has a target, to which the entries logged afterwards go.
C17_RegisteredIsAttached ==
    (nreg > 0 /\ regPc = "idle") => target # NoTarget

\* C18: a target receives, by replay or by a Write made after it was
\* attached, only entries its own Check accepts.
C18_CheckDecidesDelivery ==
    \A t \in Targets :
        \A i \in DOMAIN delivered[t] : TargetCheck(t, delivered[t][i].ent)

\* C19: every handle points to the one shared state; the fields read through
\* a handle are, at any time, its parent's accumulated fields followed by the
\* fields it was derived with, whatever handles were derived since from its
\* parent, from its siblings or from itself; and a Write through a handle
\* carries those fields followed by the fields of the call.
C19_WithSharesStateNotFields ==
    /\ \A h \in DOMAIN handles :
           /\ handles[h].shared = RootHandle.shared
           /\ SliceRead(arrays, handles[h].fields) = derived[h]
    /\ \A w \in LogWriters :
           pc[w] \in {"lock", "crit"} =>
               cur[w].fields = derived[holds[w]] \o <<Field("msg")>>

\* Two handles derived with different fields from the same parent, which has
\* three fields of its own, and a log written through the first of the two
\* and forwarded to the target attached.
C19_Witness ==
    /\ Len(handles) = MaxHandles
    /\ Len(derived[MaxHandles - 2]) = 3
    /\ derived[MaxHandles - 1] = derived[MaxHandles - 2] \o <<Field("a")>>
    /\ derived[MaxHandles] = derived[MaxHandles - 2] \o <<Field("b")>>
    /\ \E i \in DOMAIN live :
           live[i].fields = derived[MaxHandles - 1] \o <<Field("msg")>>

\* The errors Start returns, by the step that failed.
FailedBeforeLog == startRet \in {<<"get hostname">>, <<"create OTLP log exporter">>}
FailedAtMetricExporter == startRet = <<"create OTLP metric exporter">>
FailedAtInstrument == startRet \in {<<"create instrument">>, <<"unknown instrument">>}
FailedAtSpan == startRet = <<"OTLP span exporter">>
\* The log exporter, if enabled, was built and its core is still attached.
LogKept ==
    /\ provider["log"] = enableExporter["log"]
    /\ enableExporter["log"] => target = "all"

\* C20: a provider is built only after the providers of the enabled exporters
\* before it (log, metric, span); and when Start has returned, at any time
\* afterwards: with nil, every enabled exporter is built and every metric has
\* its poller; with an error, the exporters before the failing step are built
\* and stay so (the log target stays attached, the pollers started stay), and
\* the failing exporter and the later ones are not built and no poller is
\* started for the failing metric or a later one.
C20_StartAbortsNoRollback ==
    /\ provider["metric"] => provider["log"] = enableExporter["log"]
    /\ provider["span"] => /\ provider["log"] = enableExporter["log"]
                           /\ provider["metric"] = enableExporter["metric"]
    /\ (startPc = "returned" /\ ~NoneEnabled) =>
           /\ startRet = NilErr =>
                  /\ LogKept
                  /\ provider["metric"] = enableExporter["metric"]
                  /\ provider["span"] = enableExporter["span"]
                  /\ pollers = metrics
           /\ FailedBeforeLog =>
                  /\ \A e \in ExporterSet : ~provider[e]
                  /\ pollers = <<>>
                  /\ target = NoTarget
           /\ FailedAtMetricExporter =>
                  /\ LogKept
                  /\ ~provider["metric"] /\ ~provider["span"]
                  /\ pollers = <<>>
           /\ FailedAtInstrument =>
                  /\ LogKept
                  /\ provider["metric"] /\ ~provider["span"]
                  /\ IsPrefix(pollers, metrics)
                  /\ Len(pollers) < Len(metrics)
                  /\ startRet = <<"unknown instrument">> =>
                         metrics[Len(pollers) + 1] \notin Instruments
           /\ FailedAtSpan =>
                  /\ LogKept
                  /\ provider["metric"] = enableExporter["metric"]
                  /\ ~provider["span"]
                  /\ pollers = metrics
           /\ startRet = NilErr \/ FailedBeforeLog \/ FailedAtMetricExporter
                  \/ FailedAtInstrument \/ FailedAtSpan

\* Start has failed at the second metric, whose instrument is unknown, with
\* the three exporters enabled: the log core is attached, the first metric's
\* poller runs, the trace provider is not built; Stop has been called since.
C20_Witness ==
    /\ startPc = "returned"
    /\ stopPc # "idle"
    /\ \A e \in ExporterSet : enableExporter[e]
    /\ startRet = <<"unknown instrument">>
    /\ target = "all"
    /\ pollers = <<"gauge">>
    /\ provider = [e \in ExporterSet |-> e # "span"]

\* A contributed metric has an instrument Start does not know.
HasUnknownInstrument == \E i \in DOMAIN metrics : metrics[i] \notin Instruments

\* C21: with a metric of an unknown instrument, Validate, once it has
\* returned, has returned an error; and Start never returns the error of an
\* unknown instrument, which would come after the log and the metric providers
\* are built and the pollers of the metrics before it are started.
C21_UnknownInstrumentAtValidation ==
    /\ (validatePc = "returned" /\ HasUnknownInstrument) => validateRet # <<>>
    /\ startRet # <<"unknown instrument">>

\* The polling goroutine i exists and is at the given place of its loop.
PollerAt(i, where) == i \in DOMAIN ppc /\ ppc[i] = where
\* The polling goroutine i has recorded a value since Stop returned.
RecordedAfterStop(i) == i \in DOMAIN lastRec /\ lastRec[i] = "after Stop"

\* C22: when Start has returned nil there is one polling goroutine per
\* contributed metric; a goroutine that has not recorded yet is at its record,
\* not at its sleep; and, as long as the process has not crashed, a goroutine
\* at its record does record, a goroutine asleep comes back to its record, and
\* once Stop has returned every goroutine records again.
C22_PollersForever ==
    /\ []((startPc = "returned" /\ startRet = NilErr) => pollers = metrics)
    /\ [](\A i \in DOMAIN pollers : lastRec[i] = "never" => ppc[i] = "record")
    /\ \A i \in PollerIds :
           /\ PollerAt(i, "record") ~> (stopPc = "panicked" \/ PollerAt(i, "sleep"))
           /\ PollerAt(i, "sleep") ~> (stopPc = "panicked" \/ PollerAt(i, "record"))
           /\ (PollerAt(i, "record") /\ stopPc = "returned") ~> RecordedAfterStop(i)
           /\ (PollerAt(i, "sleep") /\ stopPc = "returned") ~> RecordedAfterStop(i)

\* Stop has returned, and the polling goroutine of the counter has recorded
\* since, slept, and is about to record again.
C22_Witness ==
    /\ stopPc = "returned"
    /\ pollers = <<"counter">>
    /\ lastRec = <<"after Stop">>
    /\ ppc = <<"record">>

\* C23: no goroutine of Stop panics: in every state Stop has not been called,
\* is collecting results, or has returned.
C23_StopNeverPanics ==
    /\ stopPc # "panicked"
    /\ \A e \in ExporterSet : task[e] # "panicked"

\* The fields include the one the caller named "internal", whatever its key
\* has become on the way.
MarkedInternal(fs) == \E i \in DOMAIN fs : fs[i].val = internalKey

\* C24: no log a target has received, by replay or live, carries the field
\* the caller named "internal", whether on the handle or on the call and
\* whatever prefix is configured.
C24_InternalNeverExported ==
    \A t \in Targets :
        \A i \in DOMAIN delivered[t] : ~MarkedInternal(delivered[t][i].fields)

\* C25: no goroutine waits for the lock of the bridge while it holds that
\* lock itself, a wait that never ends and after which every Write, Enabled,
\* Check and SetTarget of the other goroutines waits forever too.
C25_NoSelfDeadlock ==
    /\ \A w \in Writers : ~(pc[w] = "rlock" /\ mu = w)
    /\ ~(regPc = "rlock" /\ mu = Registrar)

\* The log is one of those in the sequence.
InSeq(seq, x) == \E i \in DOMAIN seq : seq[i] = x

\* C26: in what a target has received, no log forwarded live by a Write comes
\* before a log that was buffered and replayed, at any moment of the replay.
C26_ReplayBeforeLive ==
    \A t \in Targets :
        \A i, j \in DOMAIN delivered[t] :
            i < j => ~(InSeq(live, delivered[t][i]) /\ InSeq(preWrites, delivered[t][j]))

\* The one target attached has received two replayed logs and then a log
\* forwarded live by a Write.
C26_Witness ==
    /\ Len(delivered["all"]) = 3
    /\ InSeq(preWrites, delivered["all"][1])
    /\ InSeq(preWrites, delivered["all"][2])
    /\ InSeq(live, delivered["all"][3])
    /\ attachLog = <<"all">>
====
